---- MODULE Spec2Model ----
(***************************************************************************)
(* Model of generate_repo_list.py: the paging loop of fetch_repos and the   *)
(* record normalisation done by generate_html (Python), and the view       *)
(* engine of the generated page                                            *)
(* (JavaScript): recency classification, sorting, filtering, searching,    *)
(* rendering, the sparkline and the aggregate statistics.                  *)
(*                                                                         *)
(* Conventions                                                             *)
(*  - A string is a sequence of one-character strings; "" is <<>>.         *)
(*  - A raw (Python dict) field is Missing, Null or Val(x).                *)
(*  - An ISO date string is <<>> when empty and <<t>> when it denotes the   *)
(*    instant t.  Instants are counted in ticks of 6 hours (21 600 000 ms), *)
(*    so that the divisor 1000*60*60*24*365.25 ms of getYearsSinceUpdate   *)
(*    is the integer YearTicks.                                            *)
(*  - LET names are evaluated where they are used; where a value is used   *)
(*    many times it is bound once instead, as x \in {e}.                    *)
(***************************************************************************)
EXTENDS Integers, Sequences, FiniteSets, TLC

VARIABLES
    rawRepos,        \* the list handed to generate_html (Python dicts)
    repos,           \* const repos = json.dumps(repo_data)
    currentFilter,   \* 'all' | 'project' | 'chapter'
    currentSort,     \* the data-sort value of the sort button clicked last
    searchTerm,      \* value of #searchInput at the last input event
    activityFilter,  \* 'all' | 'within-year' | '1yr-old' | '3yr-old'
    hideArchived,    \* let hideArchived
    checkboxChecked, \* the checked property of #hideArchived
    now,             \* the clock reading (new Date()) of the last handler run
    stats,           \* the text of the counters written by updateStats
    visibleCount,    \* the text of #visibleCount
    container,       \* the content of #repoList
    activeButtons,   \* which controls carry the class 'active'
    phase,           \* which step of the run under study has been taken
    filterOutput,    \* the array returned by the last call of filterRepos or sortRepos
    history,         \* the calls of the run under study: the clicks on the recency
                     \* tiles as <<selection before, tile>>, the sorts as <<key, result>>
    sparklineArgs,   \* the arguments generateSparklineSVG is called with
    sparklineHtml,   \* what generateSparklineSVG returned
    catalog,         \* the repositories of the organisation, as the API lists them
    page,            \* page of fetch_repos
    fetchedRepos,    \* repos of fetch_repos
    requested,       \* the page numbers fetch_repos has asked the API for
    outcome          \* <<>> while fetch_repos runs, then <<"return", repos>>
                     \* or <<"exit", status>>

\* the state of fetch_repos
fetchVars == <<catalog, page, fetchedRepos, requested, outcome>>

vars == <<rawRepos, repos, currentFilter, currentSort, searchTerm, activityFilter,
          hideArchived, checkboxChecked, now, stats, visibleCount, container,
          activeButtons, phase, filterOutput, history, sparklineArgs, sparklineHtml,
          catalog, page, fetchedRepos, requested, outcome>>

---------------------------------------------------------------------------
(* Bounds of the model *)

\* longest catalog handed to generate_html
MaxRepos == 2

\* longest weekly commit series, and the most commits in one week
MaxWeeks == 3
MaxCommits == 3

\* longest run of clicks on the recency tiles that is followed
MaxClicks == 3

\* largest width and height a sparkline is drawn with
MaxWidth == 3
MaxHeight == 3

\* how many fields of one raw record are absent or null at once
MaxIrregular == 2

\* how many ticks the clock can advance after the page was loaded
MaxClockAdvance == 1

\* sortRepos is applied to its own result at most this many times
MaxSorts == 3

---------------------------------------------------------------------------
(* Strings *)

UpperCase ==
    <<"A", "B", "C", "D", "E", "F", "G", "H", "I", "J", "K", "L", "M",
      "N", "O", "P", "Q", "R", "S", "T", "U", "V", "W", "X", "Y", "Z">>

LowerCase ==
    <<"a", "b", "c", "d", "e", "f", "g", "h", "i", "j", "k", "l", "m",
      "n", "o", "p", "q", "r", "s", "t", "u", "v", "w", "x", "y", "z">>

\* the characters that occur in the strings of the model
Chars == {UpperCase[i] : i \in 1..26} \cup {LowerCase[i] : i \in 1..26} \cup {"-", "/"}

\* the lower-case form of each character
LowerOf ==
    [c \in Chars |->
        IF \E i \in 1..26 : UpperCase[i] = c
        THEN LowerCase[CHOOSE i \in 1..26 : UpperCase[i] = c]
        ELSE c]

LowerChar(c) == LowerOf[c]

\* str.lower() in Python, String.prototype.toLowerCase in JavaScript
toLowerCase(s) == [i \in 1..Len(s) |-> LowerChar(s[i])]

\* `t in s` in Python, s.includes(t) in JavaScript
includes(s, t) ==
    \E i \in 0..(Len(s) - Len(t)) : SubSeq(s, i + 1, i + Len(t)) = t

---------------------------------------------------------------------------
(* Raw records: the dicts of the GitHub API, extended by main() *)

Missing == <<"missing">>
Null == <<"null">>
Val(x) == <<"val", x>>

\* dict.get(key, default)
get(d, key, default) ==
    IF d[key] = Missing THEN default
    ELSE IF d[key] = Null THEN Null
    ELSE d[key][2]

\* truthiness of d.get(key, default) for a default that is falsy ("" or [])
truthy(d, key) == d[key] # Missing /\ d[key] # Null /\ d[key][2] # <<>>

\* d.get(key, default) or alt, for a default that is falsy
getOr(d, key, alt) == IF truthy(d, key) THEN d[key][2] ELSE alt

\* the latest week alone
sum_lastWeek(s) == IF s = <<>> THEN 0 ELSE s[Len(s)]

RECURSIVE sum(_)
\* the builtin sum() over a list of integers
sum(s) == IF s = <<>> THEN 0 ELSE s[1] + sum(Tail(s))

\* the "www-project" / "www-chapter" markers of generate_html
ProjectMarker == <<"w", "w", "w", "-", "p", "r", "o", "j", "e", "c", "t">>
ChapterMarker == <<"w", "w", "w", "-", "c", "h", "a", "p", "t", "e", "r">>

\* {} as the value of index_md: no key is present
EmptyDict == [title |-> Missing, tags |-> Missing, level |-> Missing, pitch |-> Missing]

\* null in the JSON of the page, for a field that otherwise holds <<number>>
JsNull == <<>>

\* repo.get("name", "").lower() on a name that is present and None:
\* AttributeError, which generate_html does not catch
raises(repo) == repo.name = Null

\* one iteration of the loop of generate_html: the entry appended to repo_data
normalize(repo) ==
    LET index_md == IF repo.index_md \in {Missing, Null}
                    THEN EmptyDict ELSE repo.index_md[2]
        level == IF index_md.level \in {Missing, Null}
                 THEN JsNull ELSE <<index_md.level[2]>>
        sparkline == get(repo, "sparkline", <<>>)
        activity_score == IF truthy(repo, "sparkline") THEN sum(sparkline) ELSE 0
    IN  [name              |-> get(repo, "name", <<>>),
         description       |-> getOr(repo, "description", <<>>),
         stargazers_count  |-> get(repo, "stargazers_count", 0),
         forks_count       |-> get(repo, "forks_count", 0),
         open_issues_count |-> get(repo, "open_issues_count", 0),
         open_prs_count    |-> get(repo, "open_prs_count", 0),
         updated_at        |-> get(repo, "updated_at", <<>>),
         created_at        |-> get(repo, "created_at", <<>>),
         language          |-> getOr(repo, "language", <<"N", "/", "A">>),
         archived          |-> get(repo, "archived", FALSE),
         is_project        |-> includes(toLowerCase(get(repo, "name", <<>>)), ProjectMarker),
         is_chapter        |-> includes(toLowerCase(get(repo, "name", <<>>)), ChapterMarker),
         sparkline         |-> sparkline,
         activity_score    |-> activity_score,
         title             |-> get(index_md, "title", <<>>),
         tags              |-> get(index_md, "tags", <<>>),
         level             |-> level,
         pitch             |-> get(index_md, "pitch", <<>>)]

\* repo_data of generate_html
repo_data(raws) == [i \in 1..Len(raws) |-> normalize(raws[i])]

---------------------------------------------------------------------------
(* The catalogs the model is run on *)

\* 1000 * 60 * 60 * 24 * 365.25 ms, in ticks of 6 hours
YearTicks == 1461

\* the instant at which the page is loaded, in ticks
LoadTime == 4 * YearTicks

Raw(name, description, counts, updated, created, archived, sparkline, index_md) ==
    [name |-> name, description |-> description,
     stargazers_count |-> Val(counts[1]), forks_count |-> Val(counts[2]),
     open_issues_count |-> Val(counts[3]), open_prs_count |-> counts[4],
     updated_at |-> updated, created_at |-> created, language |-> Null,
     archived |-> archived, sparkline |-> sparkline, index_md |-> index_md]

IndexMd(title, tags, level, pitch) ==
    Val([title |-> Val(title), tags |-> Val(tags), level |-> level, pitch |-> Val(pitch)])

\* "www-project-Za": updated exactly one year before the page is loaded
RawA ==
    Raw(Val(<<"w","w","w","-","p","r","o","j","e","c","t","-","Z","a">>), Null,
        <<5, 1, 0, Val(2)>>, Val(<<LoadTime - YearTicks>>), Val(<<100>>),
        Val(FALSE), Val(<<1, 0, 2>>), Missing)

\* "www-chapter-b", archived: updated exactly three years before the load
RawB ==
    Raw(Val(<<"w","w","w","-","c","h","a","p","t","e","r","-","b">>),
        Val(<<"Z","e","d">>),
        <<10, 1, 3, Val(0)>>, Val(<<LoadTime - 3 * YearTicks>>), Val(<<50>>),
        Val(TRUE), Val(<<0, 0>>), Null)

\* "c": no updated_at, no created_at, no sparkline, no open_prs_count
RawC ==
    Raw(Val(<<"c">>), Val(<<"n","o">>),
        <<5, 0, 1, Missing>>, Missing, Val(<<>>),
        Missing, Missing,
        IndexMd(<<"a","Z","A">>, <<>>, Null, <<>>))

\* "WWW-Project-d": one tick short of one year at the load
RawD ==
    Raw(Val(<<"W","W","W","-","P","r","o","j","e","c","t","-","d">>), Val(<<>>),
        <<0, 2, 1, Val(1)>>, Val(<<LoadTime - YearTicks + 1>>), Val(<<200>>),
        Val(TRUE), Val(<<>>),
        IndexMd(<<>>, <<<<"x">>, <<"y","z","A">>>>, Val(2), <<"Z","a","p">>))

\* "e": one tick short of three years at the load, six tags
RawE ==
    Raw(Val(<<"e">>), Val(<<"e">>),
        <<7, 2, 0, Val(1)>>, Val(<<LoadTime - 3 * YearTicks + 1>>), Val(<<100>>),
        Val(FALSE), Val(<<3>>),
        IndexMd(<<"e">>, <<<<"t">>, <<"u">>, <<"v">>, <<"w">>, <<"x">>, <<"Z">>>>,
                Val(4), <<>>))

\* "f": updated one tick after the load (a clock ahead of the viewer's)
RawF ==
    Raw(Val(<<"f">>), Null,
        <<7, 0, 0, Val(0)>>, Val(<<LoadTime + 1>>), Val(<<LoadTime + 1>>),
        Val(FALSE), Val(<<0, 4, 0>>),
        IndexMd(<<"f">>, <<<<"q">>>>, Val(3), <<"q">>))

RawPool == {RawA, RawB, RawC, RawD, RawE, RawF}

\* the catalogs: up to MaxRepos repositories, no repository twice
Catalogs ==
    {s \in UNION {[1..n -> RawPool] : n \in 0..MaxRepos} :
        \A i, j \in 1..Len(s) : i # j => s[i] # s[j]}

\* the organisation as fetch_repos lists it: sort=updated, direction=desc
Listing == <<RawF, RawD, RawA, RawE, RawB, RawC>>

\* the catalogs the page is loaded with: up to MaxRepos consecutive entries
PageCatalogs ==
    {SubSeq(Listing, w[1], w[1] + w[2] - 1) :
        w \in {v \in (1..Len(Listing)) \X (0..MaxRepos) : v[1] + v[2] - 1 <= Len(Listing)}}

\* the weekly commit series generate_html is run on
Series == UNION {[1..n -> 0..MaxCommits] : n \in 0..MaxWeeks}


---------------------------------------------------------------------------
(* Recency *)

\* the elapsed time taken once, when the page was loaded
getYearsSinceUpdate_atLoad(dateStr, clock) ==
    IF dateStr = <<>> THEN 0 ELSE LoadTime - dateStr[1]

\* getYearsSinceUpdate, read at the clock reading `clock`.  The result is the
\* elapsed time in ticks, that is the number of years times YearTicks: the
\* quotient diffTime / YearTicks is compared through atLeastYears.
getYearsSinceUpdate(dateStr, clock) ==
    IF dateStr = <<>> THEN 0
    ELSE LET lastUpdate == dateStr[1]
             diffTime == clock - lastUpdate
         IN  diffTime

\* the threshold compared with > instead of >=
atLeastYears_strict(years, k) == years > k * YearTicks

\* years >= k, for years as returned by getYearsSinceUpdate
atLeastYears(years, k) == years >= k * YearTicks

---------------------------------------------------------------------------
(* Sorting *)

SortKeys ==
    {"updated-desc", "updated-asc", "name-asc", "name-desc", "stars-desc",
     "stars-asc", "forks-desc", "forks-asc", "activity-desc", "activity-asc",
     "prs-desc", "prs-asc", "issues-desc", "issues-asc", "level-desc",
     "level-asc", "created-desc", "created-asc"}

\* new Date(x) - new Date(y): NaN when either string is empty; Array.prototype.sort
\* takes a NaN from the comparator as +0
dateDiff(x, y) == IF x = <<>> \/ y = <<>> THEN 0 ELSE x[1] - y[1]

\* collation order of the characters, case folded: punctuation, then letters
Alphabet == <<"-", "/">> \o LowerCase

RankOf == [c \in Chars |-> CHOOSE i \in 1..Len(Alphabet) : Alphabet[i] = LowerOf[c]]

rank(c) == RankOf[c]

RECURSIVE primaryCompare(_, _, _)
\* the first difference of a and b, from position i on, letters case folded
primaryCompare(a, b, i) ==
    IF i > Len(a) /\ i > Len(b) THEN 0
    ELSE IF i > Len(a) THEN -1
    ELSE IF i > Len(b) THEN 1
    ELSE LET ra == rank(a[i])
             rb == rank(b[i])
         IN  IF ra < rb THEN -1
             ELSE IF ra > rb THEN 1
             ELSE primaryCompare(a, b, i + 1)

RECURSIVE caseCompare(_, _, _)
\* strings equal up to case: lower case sorts before upper case
caseCompare(a, b, i) ==
    IF i > Len(a) \/ i > Len(b) THEN 0
    ELSE IF a[i] = b[i] THEN caseCompare(a, b, i + 1)
    ELSE IF a[i] = LowerChar(a[i]) THEN -1 ELSE 1

\* names compared by their length alone
localeCompare_byLength(a, b) ==
    IF Len(a) < Len(b) THEN -1 ELSE IF Len(a) > Len(b) THEN 1 ELSE 0

\* String.prototype.localeCompare
localeCompare(a, b) ==
    LET primary == primaryCompare(a, b, 1)
    IN  IF primary # 0 THEN primary ELSE caseCompare(a, b, 1)

\* repo.level || 0
levelOrZero(level) == IF level = JsNull THEN 0 ELSE level[1]

\* the comparator sortRepos passes to sort for `sortBy`, applied to (a, b);
\* (x.open_prs_count || 0) is x.open_prs_count for a number
compare(a, b, sortBy) ==
    CASE sortBy = "updated-desc"  -> dateDiff(b.updated_at, a.updated_at)
      [] sortBy = "updated-asc"   -> dateDiff(a.updated_at, b.updated_at)
      [] sortBy = "created-desc"  -> dateDiff(b.created_at, a.created_at)
      [] sortBy = "created-asc"   -> dateDiff(a.created_at, b.created_at)
      [] sortBy = "name-asc"      -> localeCompare(a.name, b.name)
      [] sortBy = "name-desc"     -> localeCompare(b.name, a.name)
      [] sortBy = "stars-desc"    -> b.stargazers_count - a.stargazers_count
      [] sortBy = "stars-asc"     -> a.stargazers_count - b.stargazers_count
      [] sortBy = "forks-desc"    -> b.forks_count - a.forks_count
      [] sortBy = "forks-asc"     -> a.forks_count - b.forks_count
      [] sortBy = "activity-desc" -> b.activity_score - a.activity_score
      [] sortBy = "activity-asc"  -> a.activity_score - b.activity_score
      [] sortBy = "prs-desc"      -> b.open_prs_count - a.open_prs_count
      [] sortBy = "prs-asc"       -> a.open_prs_count - b.open_prs_count
      [] sortBy = "issues-desc"   -> b.open_issues_count - a.open_issues_count
      [] sortBy = "issues-asc"    -> a.open_issues_count - b.open_issues_count
      [] sortBy = "level-desc"    -> levelOrZero(b.level) - levelOrZero(a.level)
      [] sortBy = "level-asc"     -> levelOrZero(a.level) - levelOrZero(b.level)

(* Array.prototype.sort is stable; for an array this short the engine counts
   the initial run, reverses it when strictly descending, and inserts the
   remaining elements by binary search.  Indices are 0-based as in the
   engine: arr[i + 1] is element i. *)

RECURSIVE runEnd(_, _, _, _)
\* the index at which the run starting at index 0 stops
runEnd(arr, idx, isDescending, sortBy) ==
    IF idx >= Len(arr) THEN idx
    ELSE LET order == compare(arr[idx + 1], arr[idx], sortBy)
         IN  IF (isDescending /\ order >= 0) \/ (~isDescending /\ order < 0)
             THEN idx
             ELSE runEnd(arr, idx + 1, isDescending, sortBy)

reverseRange(arr, n) ==
    [i \in 1..Len(arr) |-> IF i <= n THEN arr[n + 1 - i] ELSE arr[i]]

RECURSIVE insertionPoint(_, _, _, _, _)
insertionPoint(arr, pivot, left, right, sortBy) ==
    IF left >= right THEN left
    ELSE LET mid == left + ((right - left) \div 2)
         IN  IF compare(pivot, arr[mid + 1], sortBy) < 0
             THEN insertionPoint(arr, pivot, left, mid, sortBy)
             ELSE insertionPoint(arr, pivot, mid + 1, right, sortBy)

\* arr with element `start` moved to index `left`
moveTo(arr, start, left) ==
    SubSeq(arr, 1, left) \o <<arr[start + 1]>> \o SubSeq(arr, left + 1, start)
        \o SubSeq(arr, start + 2, Len(arr))

RECURSIVE binaryInsertionSort(_, _, _)
binaryInsertionSort(arr, start, sortBy) ==
    IF start >= Len(arr) THEN arr
    ELSE CHOOSE out \in
            {binaryInsertionSort(moved, start + 1, sortBy) :
                moved \in {moveTo(arr, start, left) :
                             left \in {insertionPoint(arr, arr[start + 1], 0, start, sortBy)}}}
            : TRUE

\* the array with its initial run made ascending, and the length of that run
countAndMakeRun(arr, sortBy) ==
    LET isDescending == compare(arr[2], arr[1], sortBy) < 0
    IN  CHOOSE out \in
            {[run |-> IF isDescending THEN reverseRange(arr, runLength) ELSE arr,
              runLength |-> runLength] :
                runLength \in {runEnd(arr, 2, isDescending, sortBy)}} : TRUE

\* sorted.sort(comparator of sortBy)
arraySort(arr, sortBy) ==
    IF Len(arr) < 2 THEN arr
    ELSE CHOOSE out \in
            {binaryInsertionSort(r.run, r.runLength, sortBy) :
                r \in {countAndMakeRun(arr, sortBy)}} : TRUE

\* the array handed back in its input order
sortRepos_inputOrder(rs, sortBy) == rs

sortRepos(rs, sortBy) ==
    IF sortBy \in SortKeys THEN arraySort(rs, sortBy) ELSE rs

\* sort() run on the array passed in, not on a copy
reposAfterSort_inPlace(rs, sortBy) == sortRepos(rs, sortBy)

\* the array passed to sortRepos, after the call: sort() rearranges `sorted`,
\* the copy made by [...repos], and leaves the array passed in as it was
reposAfterSort(rs, sortBy) == rs

---------------------------------------------------------------------------
(* Filtering *)

\* the selection state filterRepos reads, and the clock
Selection(hide, category, activity, term, clock) ==
    [hideArchived |-> hide, currentFilter |-> category, activityFilter |-> activity,
     searchTerm |-> term, clock |-> clock]

\* the tags left out of the search
matchesSearch_withoutTags(repo, term) ==
    \/ includes(toLowerCase(repo.name), term)
    \/ includes(toLowerCase(repo.description), term)
    \/ (repo.title # <<>> /\ includes(toLowerCase(repo.title), term))
    \/ (repo.pitch # <<>> /\ includes(toLowerCase(repo.pitch), term))

\* the predicate of the search filter
matchesSearch(repo, term) ==
    \/ includes(toLowerCase(repo.name), term)
    \/ includes(toLowerCase(repo.description), term)
    \/ (repo.title # <<>> /\ includes(toLowerCase(repo.title), term))
    \/ (repo.pitch # <<>> /\ includes(toLowerCase(repo.pitch), term))
    \/ \E i \in 1..Len(repo.tags) : includes(toLowerCase(repo.tags[i]), term)

\* the category filter run on the full array: the archived filter is lost
filterRepos_categoryOnFullArray(rs, sel) ==
    LET years(repo) == getYearsSinceUpdate(repo.updated_at, sel.clock)
        archivedStep ==
            IF sel.hideArchived
            THEN SelectSeq(rs, LAMBDA repo : ~repo.archived)
            ELSE rs
        categoryStep ==
            IF sel.currentFilter = "project"
            THEN SelectSeq(rs, LAMBDA repo : repo.is_project)
            ELSE IF sel.currentFilter = "chapter"
            THEN SelectSeq(rs, LAMBDA repo : repo.is_chapter)
            ELSE archivedStep
        activityStep ==
            IF sel.activityFilter = "within-year"
            THEN SelectSeq(categoryStep, LAMBDA repo : ~atLeastYears(years(repo), 1))
            ELSE IF sel.activityFilter = "1yr-old"
            THEN SelectSeq(categoryStep, LAMBDA repo : atLeastYears(years(repo), 1))
            ELSE IF sel.activityFilter = "3yr-old"
            THEN SelectSeq(categoryStep, LAMBDA repo : atLeastYears(years(repo), 3))
            ELSE categoryStep
        searchStep ==
            IF sel.searchTerm # <<>>
            THEN LET term == toLowerCase(sel.searchTerm)
                 IN  SelectSeq(activityStep, LAMBDA repo : matchesSearch(repo, term))
            ELSE activityStep
    IN  searchStep

\* the search run on the full array: the filters before it are lost
filterRepos_searchOnFullArray(rs, sel) ==
    LET years(repo) == getYearsSinceUpdate(repo.updated_at, sel.clock)
        archivedStep ==
            IF sel.hideArchived
            THEN SelectSeq(rs, LAMBDA repo : ~repo.archived)
            ELSE rs
        categoryStep ==
            IF sel.currentFilter = "project"
            THEN SelectSeq(archivedStep, LAMBDA repo : repo.is_project)
            ELSE IF sel.currentFilter = "chapter"
            THEN SelectSeq(archivedStep, LAMBDA repo : repo.is_chapter)
            ELSE archivedStep
        activityStep ==
            IF sel.activityFilter = "within-year"
            THEN SelectSeq(categoryStep, LAMBDA repo : ~atLeastYears(years(repo), 1))
            ELSE IF sel.activityFilter = "1yr-old"
            THEN SelectSeq(categoryStep, LAMBDA repo : atLeastYears(years(repo), 1))
            ELSE IF sel.activityFilter = "3yr-old"
            THEN SelectSeq(categoryStep, LAMBDA repo : atLeastYears(years(repo), 3))
            ELSE categoryStep
        searchStep ==
            IF sel.searchTerm # <<>>
            THEN LET term == toLowerCase(sel.searchTerm)
                 IN  SelectSeq(rs, LAMBDA repo : matchesSearch(repo, term))
            ELSE activityStep
    IN  searchStep

\* the result handed back in reverse
filterRepos_newestFirst(rs, sel) ==
    LET years(repo) == getYearsSinceUpdate(repo.updated_at, sel.clock)
        archivedStep ==
            IF sel.hideArchived
            THEN SelectSeq(rs, LAMBDA repo : ~repo.archived)
            ELSE rs
        categoryStep ==
            IF sel.currentFilter = "project"
            THEN SelectSeq(archivedStep, LAMBDA repo : repo.is_project)
            ELSE IF sel.currentFilter = "chapter"
            THEN SelectSeq(archivedStep, LAMBDA repo : repo.is_chapter)
            ELSE archivedStep
        activityStep ==
            IF sel.activityFilter = "within-year"
            THEN SelectSeq(categoryStep, LAMBDA repo : ~atLeastYears(years(repo), 1))
            ELSE IF sel.activityFilter = "1yr-old"
            THEN SelectSeq(categoryStep, LAMBDA repo : atLeastYears(years(repo), 1))
            ELSE IF sel.activityFilter = "3yr-old"
            THEN SelectSeq(categoryStep, LAMBDA repo : atLeastYears(years(repo), 3))
            ELSE categoryStep
        searchStep ==
            IF sel.searchTerm # <<>>
            THEN LET term == toLowerCase(sel.searchTerm)
                 IN  SelectSeq(activityStep, LAMBDA repo : matchesSearch(repo, term))
            ELSE activityStep
    IN  [i \in 1..Len(searchStep) |-> searchStep[Len(searchStep) + 1 - i]]

filterRepos(rs, sel) ==
    LET years(repo) == getYearsSinceUpdate(repo.updated_at, sel.clock)
        archivedStep ==
            IF sel.hideArchived
            THEN SelectSeq(rs, LAMBDA repo : ~repo.archived)
            ELSE rs
        categoryStep ==
            IF sel.currentFilter = "project"
            THEN SelectSeq(archivedStep, LAMBDA repo : repo.is_project)
            ELSE IF sel.currentFilter = "chapter"
            THEN SelectSeq(archivedStep, LAMBDA repo : repo.is_chapter)
            ELSE archivedStep
        activityStep ==
            IF sel.activityFilter = "within-year"
            THEN SelectSeq(categoryStep, LAMBDA repo : ~atLeastYears(years(repo), 1))
            ELSE IF sel.activityFilter = "1yr-old"
            THEN SelectSeq(categoryStep, LAMBDA repo : atLeastYears(years(repo), 1))
            ELSE IF sel.activityFilter = "3yr-old"
            THEN SelectSeq(categoryStep, LAMBDA repo : atLeastYears(years(repo), 3))
            ELSE categoryStep
        searchStep ==
            IF sel.searchTerm # <<>>
            THEN LET term == toLowerCase(sel.searchTerm)
                 IN  SelectSeq(activityStep, LAMBDA repo : matchesSearch(repo, term))
            ELSE activityStep
    IN  searchStep

---------------------------------------------------------------------------
(* The sparkline.  Widths and heights are whole numbers; a coordinate is held
   as the number toFixed(1) prints, in tenths: 267 for "26.7". *)

\* the digits after the first decimal cut off
toFixed1_truncated(num, den) == (10 * num) \div den

\* (num / den).toFixed(1) for num / den >= 0, in tenths: the nearest tenth, the
\* larger of two equally near.  Within the bounds of the model a value half
\* way between two tenths is a multiple of 1/4, which a double holds exactly.
toFixed1(num, den) == (20 * num + den) \div (2 * den)

RECURSIVE mathMax(_, _)
\* Math.max(...data, floor)
mathMax(data, floor) ==
    IF data = <<>> THEN floor
    ELSE LET rest == mathMax(Tail(data), floor)
         IN  IF data[1] > rest THEN data[1] ELSE rest

\* a series without commits taken for a series without data
noData_whenFlat(data) == data = Null \/ data[2] = <<>> \/ sum(data[2]) = 0

\* !data || data.length === 0, for data null or an array
noData(data) == data = Null \/ data[2] = <<>>

\* generateSparklineSVG(data, width, height): the label, or the polyline's
\* points, the fill path's vertices and the number in the title
generateSparklineSVG(data, width, height) ==
    IF noData(data)
    THEN [label |-> "No activity data", points |-> <<>>, fillPath |-> <<>>,
          totalCommits |-> 0]
    ELSE LET series == data[2]
             max == mathMax(series, 1)
             divisor == IF Len(series) > 1 THEN Len(series) - 1 ELSE 1
             \* x = (index / divisor) * width; y = height - (value / max) * height
             getCoord(value, index) ==
                 <<toFixed1(index * width, divisor),
                   toFixed1(height * max - value * height, max)>>
             points == [k \in 1..Len(series) |-> getCoord(series[k], k - 1)]
         IN  [label |-> "",
              points |-> points,
              fillPath |-> <<<<0, 10 * height>>>> \o points
                              \o <<<<10 * width, 10 * height>>>>,
              totalCommits |-> sum(series)]

---------------------------------------------------------------------------
(* Rendering and statistics *)

\* the one-year test made before the three-year test
activityBadge_oneYearFirst(yearsSinceUpdate) ==
    IF atLeastYears(yearsSinceUpdate, 1) THEN "1yr+"
    ELSE IF atLeastYears(yearsSinceUpdate, 3) THEN "3yr+"
    ELSE "none"

\* the activity badge pushed by renderRepos
activityBadge(yearsSinceUpdate) ==
    IF atLeastYears(yearsSinceUpdate, 3) THEN "3yr+"
    ELSE IF atLeastYears(yearsSinceUpdate, 1) THEN "1yr+"
    ELSE "none"

\* the bump link offered to every stale record, archived or not
bumpButton_ignoringArchived(repo, yearsSinceUpdate) ==
    IF atLeastYears(yearsSinceUpdate, 1) THEN "link" ELSE "none"

\* the bump control built by renderRepos
bumpButton(repo, yearsSinceUpdate) ==
    IF atLeastYears(yearsSinceUpdate, 1)
    THEN IF repo.archived THEN "disabled" ELSE "link"
    ELSE "none"

\* repo.tags.slice(0, 5)
TagCap == 5

slice(s, n) == SubSeq(s, 1, IF Len(s) < n THEN Len(s) ELSE n)

\* repo.tags after repo.tags.slice(0, 5): slice returns a new array
tagsAfterSlice(tags) == tags

\* one .repo-item of the list
repoItem(repo, clock) ==
    LET yearsSinceUpdate == getYearsSinceUpdate(repo.updated_at, clock)
    IN  [repo |-> repo,
         yearsSinceUpdate |-> yearsSinceUpdate,
         activityBadge |-> activityBadge(yearsSinceUpdate),
         bumpButton |-> bumpButton(repo, yearsSinceUpdate),
         tags |-> slice(repo.tags, TagCap)]

\* an empty result rendered as an empty list, without the notice
rendered_withoutNotice(filtered, clock) ==
    [container |-> [noResults |-> FALSE,
                    items |-> [i \in 1..Len(filtered) |-> repoItem(filtered[i], clock)]],
     visibleCount |-> Len(filtered)]

\* what renderRepos leaves in #repoList and #visibleCount, given `filtered`
rendered(filtered, clock) ==
    IF Len(filtered) = 0
    THEN [container |-> [noResults |-> TRUE, items |-> <<>>], visibleCount |-> 0]
    ELSE [container |-> [noResults |-> FALSE,
                         items |-> [i \in 1..Len(filtered) |->
                                        repoItem(filtered[i], clock)]],
          visibleCount |-> Len(filtered)]

\* the filter run on the unsorted array
renderRepos_unsorted(rs, sortBy, sel) ==
    CHOOSE out \in {rendered(filtered, sel.clock) :
                        filtered \in {filterRepos(rs, sel)}} : TRUE

\* renderRepos: sorted = sortRepos(repos, currentSort), filtered = filterRepos(sorted)
renderRepos(rs, sortBy, sel) ==
    CHOOSE out \in {rendered(filtered, sel.clock) :
                        filtered \in {filterRepos(sorted, sel) :
                                         sorted \in {sortRepos(rs, sortBy)}}} : TRUE

\* the counters taken over the records the list shows by default
updateStats_ofUnarchived(rs, clock) ==
    LET shown == SelectSeq(rs, LAMBDA r : ~r.archived)
        years(r) == getYearsSinceUpdate(r.updated_at, clock)
        totalProjects == Len(SelectSeq(shown, LAMBDA r : r.is_project))
        totalChapters == Len(SelectSeq(shown, LAMBDA r : r.is_chapter))
    IN  [totalCount |-> Len(shown),
         activeReposCount |-> Len(shown),
         archivedReposCount |-> 0,
         projectCount |-> totalProjects,
         activeProjectsCount |-> totalProjects,
         archivedProjectsCount |-> 0,
         chapterCount |-> totalChapters,
         activeChaptersCount |-> totalChapters,
         archivedChaptersCount |-> 0,
         activeYearCount |-> Len(SelectSeq(shown, LAMBDA r : ~atLeastYears(years(r), 1))),
         inactive1yrCount |-> Len(SelectSeq(shown, LAMBDA r : atLeastYears(years(r), 1))),
         inactive3yrCount |-> Len(SelectSeq(shown, LAMBDA r : atLeastYears(years(r), 3)))]

\* the counters written by updateStats
updateStats(rs, clock) ==
    LET years(r) == getYearsSinceUpdate(r.updated_at, clock)
        totalRepos == Len(rs)
        archivedRepos == Len(SelectSeq(rs, LAMBDA r : r.archived))
        totalProjects == Len(SelectSeq(rs, LAMBDA r : r.is_project))
        archivedProjects == Len(SelectSeq(rs, LAMBDA r : r.is_project /\ r.archived))
        totalChapters == Len(SelectSeq(rs, LAMBDA r : r.is_chapter))
        archivedChapters == Len(SelectSeq(rs, LAMBDA r : r.is_chapter /\ r.archived))
    IN  [totalCount |-> totalRepos,
         activeReposCount |-> totalRepos - archivedRepos,
         archivedReposCount |-> archivedRepos,
         projectCount |-> totalProjects,
         activeProjectsCount |-> totalProjects - archivedProjects,
         archivedProjectsCount |-> archivedProjects,
         chapterCount |-> totalChapters,
         activeChaptersCount |-> totalChapters - archivedChapters,
         archivedChaptersCount |-> archivedChapters,
         activeYearCount |-> Len(SelectSeq(rs, LAMBDA r : ~atLeastYears(years(r), 1))),
         inactive1yrCount |-> Len(SelectSeq(rs, LAMBDA r : atLeastYears(years(r), 1))),
         inactive3yrCount |-> Len(SelectSeq(rs, LAMBDA r : atLeastYears(years(r), 3)))]

-------------------------------------------------------------------------------
(* The page *)

Categories == {"all", "project", "chapter"}
ActivityFilters == {"within-year", "1yr-old", "3yr-old"}

\* what can be typed into #searchInput
SearchTerms == {<<>>, <<"Z">>, <<"z", "a">>}

\* the clock readings a handler can see, given the previous reading
Clock(prev) == prev .. (LoadTime + MaxClockAdvance)

\* 'filter' + filter.charAt(0).toUpperCase() + filter.slice(1)
categoryButton(f) ==
    CASE f = "all" -> "filterAll"
      [] f = "project" -> "filterProject"
      [] f = "chapter" -> "filterChapter"

\* a radio button: the tile clicked is selected
toggled_radio(current, filter) == filter

\* the selection setActivityFilter leaves when the tile of `filter` is clicked
toggled(current, filter) == IF current = filter THEN "all" ELSE filter

\* the tile setActivityFilter marks active
activityTile(f) ==
    CASE f = "within-year" -> {"filterActiveYear"}
      [] f = "1yr-old" -> {"filterInactive1yr"}
      [] f = "3yr-old" -> {"filterInactive3yr"}
      [] OTHER -> {}

\* the counters, the list and the highlighted controls as the markup has them
MarkupStats ==
    [totalCount |-> 0, activeReposCount |-> 0, archivedReposCount |-> 0,
     projectCount |-> 0, activeProjectsCount |-> 0, archivedProjectsCount |-> 0,
     chapterCount |-> 0, activeChaptersCount |-> 0, archivedChaptersCount |-> 0,
     activeYearCount |-> 0, inactive1yrCount |-> 0, inactive3yrCount |-> 0]

MarkupContainer == [noResults |-> FALSE, items |-> <<>>]

MarkupButtons == [category |-> {"filterAll"}, sort |-> {"updated-desc"}, tiles |-> {}]

\* fetch_repos has returned before the page exists: nothing is being fetched
NoFetch ==
    /\ catalog = <<>>
    /\ page = 1
    /\ fetchedRepos = <<>>
    /\ requested = <<>>
    /\ outcome = <<"return", <<>>>>

\* the selection state as the script declares it
InitialSelection ==
    /\ currentFilter = "all"
    /\ currentSort = "activity-desc"
    /\ searchTerm = <<>>
    /\ activityFilter = "all"
    /\ hideArchived = TRUE
    /\ checkboxChecked = TRUE

CurrentSelection ==
    Selection(hideArchived, currentFilter, activityFilter, searchTerm, now)

\* the array `repos` after renderRepos has run
reposAfterRender(rs, sortBy) ==
    LET after == reposAfterSort(rs, sortBy)
    IN  [i \in 1..Len(after) |-> [after[i] EXCEPT !.tags = tagsAfterSlice(@)]]

Render(sortBy, sel) ==
    \E r \in {renderRepos(repos, sortBy, sel)} :
        /\ container' = r.container
        /\ visibleCount' = r.visibleCount
        /\ now' = sel.clock
        /\ repos' = reposAfterRender(repos, sortBy)

\* generate_html, then the script of the page up to the initial render
Init ==
    /\ rawRepos \in PageCatalogs
    /\ repos = reposAfterRender(repo_data(rawRepos), "activity-desc")
    /\ InitialSelection
    /\ now = LoadTime
    /\ activeButtons = MarkupButtons
    /\ stats = updateStats(repos, LoadTime)
    /\ LET r == renderRepos(repos, "activity-desc",
                            Selection(TRUE, "all", "all", <<>>, LoadTime))
       IN  /\ container = r.container
           /\ visibleCount = r.visibleCount
    /\ phase = "page"
    /\ filterOutput = <<>>
    /\ history = <<>>
    /\ sparklineArgs = <<>>
    /\ sparklineHtml = <<>>
    /\ NoFetch

\* a category button that also empties the search box
setFilter_clearingSearch(f) ==
    /\ currentFilter' = f
    /\ searchTerm' = <<>>
    /\ activeButtons' = [activeButtons EXCEPT !.category = {categoryButton(f)}]
    /\ \E t \in Clock(now) :
          Render(currentSort, Selection(hideArchived, f, activityFilter, <<>>, t))
    /\ UNCHANGED <<fetchVars, sparklineArgs, sparklineHtml,
                   rawRepos, currentSort, activityFilter,
                   hideArchived, checkboxChecked, stats, phase, filterOutput, history>>

setFilter(f) ==
    /\ currentFilter' = f
    /\ activeButtons' = [activeButtons EXCEPT !.category = {categoryButton(f)}]
    /\ \E t \in Clock(now) :
          Render(currentSort, Selection(hideArchived, f, activityFilter, searchTerm, t))
    /\ UNCHANGED <<fetchVars, sparklineArgs, sparklineHtml,
                   rawRepos, currentSort, searchTerm, activityFilter,
                   hideArchived, checkboxChecked, stats, phase, filterOutput, history>>

\* the body of setActivityFilter
activityFilterClicked(f) ==
    LET next == toggled(activityFilter, f)
    IN  /\ activityFilter' = next
        /\ activeButtons' = [activeButtons EXCEPT !.tiles = activityTile(next)]
        /\ \E t \in Clock(now) :
              Render(currentSort, Selection(hideArchived, currentFilter, next, searchTerm, t))
        /\ UNCHANGED <<fetchVars, sparklineArgs, sparklineHtml,
                       rawRepos, currentFilter, currentSort, searchTerm,
                       hideArchived, checkboxChecked, stats, phase, filterOutput>>

setActivityFilter(f) ==
    /\ activityFilterClicked(f)
    /\ UNCHANGED history

\* the checkbox handler returning before it renders
toggleHideArchived_withoutRender ==
    /\ checkboxChecked' = ~checkboxChecked
    /\ hideArchived' = checkboxChecked'
    /\ UNCHANGED <<fetchVars, sparklineArgs, sparklineHtml,
                   rawRepos, repos, currentFilter, currentSort, searchTerm,
                   activityFilter, now, stats, visibleCount, container,
                   activeButtons, phase, filterOutput, history>>

\* the change event of the checkbox: the click flips it, the handler reads it
toggleHideArchived ==
    /\ checkboxChecked' = ~checkboxChecked
    /\ hideArchived' = checkboxChecked'
    /\ \E t \in Clock(now) :
          Render(currentSort,
                 Selection(checkboxChecked', currentFilter, activityFilter, searchTerm, t))
    /\ UNCHANGED <<fetchVars, sparklineArgs, sparklineHtml,
                   rawRepos, currentFilter, currentSort, searchTerm,
                   activityFilter, stats, activeButtons, phase, filterOutput, history>>

\* the input listener of #searchInput
searchInput(value) ==
    /\ searchTerm' = value
    /\ \E t \in Clock(now) :
          Render(currentSort,
                 Selection(hideArchived, currentFilter, activityFilter, value, t))
    /\ UNCHANGED <<fetchVars, sparklineArgs, sparklineHtml,
                   rawRepos, currentFilter, currentSort, activityFilter,
                   hideArchived, checkboxChecked, stats, activeButtons, phase,
                   filterOutput, history>>

\* the click listener of a .sort-btn
sortClick(sortBy) ==
    /\ activeButtons' = [activeButtons EXCEPT !.sort = {sortBy}]
    /\ currentSort' = sortBy
    /\ \E t \in Clock(now) :
          Render(sortBy,
                 Selection(hideArchived, currentFilter, activityFilter, searchTerm, t))
    /\ UNCHANGED <<fetchVars, sparklineArgs, sparklineHtml,
                   rawRepos, currentFilter, searchTerm, activityFilter,
                   hideArchived, checkboxChecked, stats, phase, filterOutput, history>>

Next ==
    \/ \E f \in Categories : setFilter(f)
    \/ \E f \in ActivityFilters : setActivityFilter(f)
    \/ toggleHideArchived
    \/ \E value \in SearchTerms : searchInput(value)
    \/ \E sortBy \in SortKeys : sortClick(sortBy)

Spec == Init /\ [][Next]_vars

---------------------------------------------------------------------------
(* The recency tiles alone: runs of clicks, each click recorded *)

clickTile(f) ==
    /\ Len(history) < MaxClicks
    /\ activityFilterClicked(f)
    /\ history' = Append(history, <<activityFilter, f>>)

NextToggle == \E f \in ActivityFilters : clickTile(f)

SpecToggle == Init /\ [][NextToggle]_vars

---------------------------------------------------------------------------
(* generate_html alone, run on one repository with a given commit series *)

InitScore ==
    /\ \E field \in {Missing, Null} \cup {Val(series) : series \in Series} :
          rawRepos = <<[RawA EXCEPT !.sparkline = field]>>
    /\ repos = <<>>
    /\ InitialSelection
    /\ now = LoadTime
    /\ activeButtons = MarkupButtons
    /\ stats = MarkupStats
    /\ container = MarkupContainer
    /\ visibleCount = 0
    /\ phase = "fetched"
    /\ filterOutput = <<>>
    /\ history = <<>>
    /\ sparklineArgs = <<>>
    /\ sparklineHtml = <<>>
    /\ NoFetch

generate_html ==
    /\ phase = "fetched"
    /\ IF \E i \in 1..Len(rawRepos) : raises(rawRepos[i])
       THEN /\ repos' = repos
            /\ phase' = "raised"
       ELSE /\ repos' = repo_data(rawRepos)
            /\ phase' = "generated"
    /\ UNCHANGED <<fetchVars, sparklineArgs, sparklineHtml,
                   rawRepos, currentFilter, currentSort, searchTerm, activityFilter,
                   hideArchived, checkboxChecked, now, stats, visibleCount,
                   container, activeButtons, filterOutput, history>>

NextScore == generate_html

SpecScore == InitScore /\ [][NextScore]_vars

---------------------------------------------------------------------------
(* filterRepos alone: applied to any catalog under any selection state, and
   then again to its own result *)

InitFilter ==
    /\ rawRepos \in Catalogs
    /\ repos = repo_data(rawRepos)
    /\ currentFilter \in Categories
    /\ currentSort = "activity-desc"
    /\ searchTerm \in SearchTerms
    /\ activityFilter \in {"all"} \cup ActivityFilters
    /\ hideArchived \in BOOLEAN
    /\ checkboxChecked = hideArchived
    /\ now \in Clock(LoadTime)
    /\ activeButtons = MarkupButtons
    /\ stats = MarkupStats
    /\ container = MarkupContainer
    /\ visibleCount = 0
    /\ phase = "unfiltered"
    /\ filterOutput = <<>>
    /\ history = <<>>
    /\ sparklineArgs = <<>>
    /\ sparklineHtml = <<>>
    /\ NoFetch

\* filterRepos applied to the full array
applyFilter ==
    /\ phase = "unfiltered"
    /\ filterOutput' = filterRepos(repos, CurrentSelection)
    /\ phase' = "filtered"
    /\ UNCHANGED <<fetchVars, sparklineArgs, sparklineHtml,
                   rawRepos, repos, currentFilter, currentSort, searchTerm,
                   activityFilter, hideArchived, checkboxChecked, now, stats,
                   visibleCount, container, activeButtons, history>>

\* filterRepos applied to the array it returned
applyFilterAgain ==
    /\ phase = "filtered"
    /\ filterOutput' = filterRepos(filterOutput, CurrentSelection)
    /\ phase' = "refiltered"
    /\ UNCHANGED <<fetchVars, sparklineArgs, sparklineHtml,
                   rawRepos, repos, currentFilter, currentSort, searchTerm,
                   activityFilter, hideArchived, checkboxChecked, now, stats,
                   visibleCount, container, activeButtons, history>>

NextFilter == applyFilter \/ applyFilterAgain

SpecFilter == InitFilter /\ [][NextFilter]_vars

---------------------------------------------------------------------------
(* sortRepos alone: applied to any catalog in any order, and then again to its
   own result under the keys of the same column *)

\* the sort buttons, by the column they sort on
SortColumns ==
    {{"updated-desc", "updated-asc"}, {"name-asc", "name-desc"},
     {"stars-desc", "stars-asc"}, {"forks-desc", "forks-asc"},
     {"activity-desc", "activity-asc"}, {"prs-desc", "prs-asc"},
     {"issues-desc", "issues-asc"}, {"level-desc", "level-asc"},
     {"created-desc", "created-asc"}}

\* the arrays sortRepos is run on: one record more than a catalog holds, so
\* that a record can stand between two others
SortInputs ==
    {s \in UNION {[1..n -> RawPool] : n \in 0..(MaxRepos + 1)} :
        \A i, j \in 1..Len(s) : i # j => s[i] # s[j]}

\* a key that no case of the switch names
UnknownSortKeys == {"stars"}

InitSort ==
    /\ rawRepos \in SortInputs
    /\ repos = repo_data(rawRepos)
    /\ InitialSelection
    /\ now = LoadTime
    /\ activeButtons = MarkupButtons
    /\ stats = MarkupStats
    /\ container = MarkupContainer
    /\ visibleCount = 0
    /\ phase = "unsorted"
    /\ filterOutput = repos
    /\ history = <<>>
    /\ sparklineArgs = <<>>
    /\ sparklineHtml = <<>>
    /\ NoFetch

\* sortRepos applied to the array in hand; the key and the result are recorded
applySort(sortBy) ==
    /\ Len(history) < MaxSorts
    /\ history # <<>> => \E column \in SortColumns : {sortBy, history[1][1]} \subseteq column
    /\ \E sorted \in {sortRepos(filterOutput, sortBy)} :
          /\ filterOutput' = sorted
          /\ history' = Append(history, <<sortBy, sorted>>)
    /\ currentSort' = sortBy
    /\ phase' = "sorted"
    /\ UNCHANGED <<fetchVars, sparklineArgs, sparklineHtml,
                   rawRepos, repos, currentFilter, searchTerm, activityFilter,
                   hideArchived, checkboxChecked, now, stats, visibleCount,
                   container, activeButtons>>

NextSort == \E sortBy \in SortKeys \cup UnknownSortKeys : applySort(sortBy)

SpecSort == InitSort /\ [][NextSort]_vars

---------------------------------------------------------------------------
(* The page loaded with the two records of the end-to-end example *)

\* a record that holds a name, a star count, the archived flag and updated_at
Sparse(name, stars, archived, updated) ==
    [name |-> Val(name), description |-> Missing,
     stargazers_count |-> Val(stars), forks_count |-> Missing,
     open_issues_count |-> Missing, open_prs_count |-> Missing,
     updated_at |-> Val(<<updated>>), created_at |-> Missing, language |-> Missing,
     archived |-> Val(archived), sparkline |-> Missing, index_md |-> Missing]

\* a: 5 stars, updated two years before the load; b: 10 stars, archived,
\* updated half a year before the load
ExampleCatalog ==
    <<Sparse(<<"a">>, 5, FALSE, LoadTime - 2 * YearTicks),
      Sparse(<<"b">>, 10, TRUE, LoadTime - (YearTicks \div 2))>>

ExampleTerms == {<<>>, <<"b">>}

InitExample ==
    /\ rawRepos = ExampleCatalog
    /\ repos = reposAfterRender(repo_data(rawRepos), "activity-desc")
    /\ InitialSelection
    /\ now = LoadTime
    /\ activeButtons = MarkupButtons
    /\ stats = updateStats(repos, LoadTime)
    /\ \E r \in {renderRepos(repos, "activity-desc",
                             Selection(TRUE, "all", "all", <<>>, LoadTime))} :
          /\ container = r.container
          /\ visibleCount = r.visibleCount
    /\ phase = "page"
    /\ filterOutput = <<>>
    /\ history = <<>>
    /\ sparklineArgs = <<>>
    /\ sparklineHtml = <<>>
    /\ NoFetch

NextExample ==
    \/ \E f \in Categories : setFilter(f)
    \/ \E f \in ActivityFilters : setActivityFilter(f)
    \/ toggleHideArchived
    \/ \E value \in ExampleTerms : searchInput(value)
    \/ \E sortBy \in SortKeys : sortClick(sortBy)

SpecExample == InitExample /\ [][NextExample]_vars

---------------------------------------------------------------------------
(* generate_html alone, run on a record with absent and null fields *)

\* the keys generate_html reads from a raw record and from its index_md
TopKeys ==
    {"name", "description", "stargazers_count", "forks_count", "open_issues_count",
     "open_prs_count", "updated_at", "created_at", "language", "archived",
     "sparkline", "index_md"}
IndexKeys == {"title", "tags", "level", "pitch"}

\* a record in which every key is present and holds a value of its kind
Regular == [RawE EXCEPT !.language = Val(<<"G", "o">>)]

\* the record with the field `key` absent or null
withField(repo, key, field) ==
    IF key \in TopKeys THEN [repo EXCEPT ![key] = field]
    ELSE IF repo.index_md \in {Missing, Null} THEN repo
    ELSE [repo EXCEPT !.index_md = Val([@[2] EXCEPT ![key] = field])]

RECURSIVE Irregular(_)
\* the records with up to n fields absent or null
Irregular(n) ==
    IF n = 0 THEN {Regular}
    ELSE LET fewer == Irregular(n - 1)
         IN  fewer \cup {withField(repo, key, field) :
                            repo \in fewer, key \in TopKeys \cup IndexKeys,
                            field \in {Missing, Null}}

InitNormalize ==
    /\ \E repo \in Irregular(MaxIrregular) : rawRepos = <<repo>>
    /\ repos = <<>>
    /\ InitialSelection
    /\ now = LoadTime
    /\ activeButtons = MarkupButtons
    /\ stats = MarkupStats
    /\ container = MarkupContainer
    /\ visibleCount = 0
    /\ phase = "fetched"
    /\ filterOutput = <<>>
    /\ history = <<>>
    /\ sparklineArgs = <<>>
    /\ sparklineHtml = <<>>
    /\ NoFetch

SpecNormalize == InitNormalize /\ [][NextScore]_vars

---------------------------------------------------------------------------
(* generateSparklineSVG alone: called with any series, width and height *)

InitSparkline ==
    /\ rawRepos = <<>>
    /\ repos = <<>>
    /\ InitialSelection
    /\ now = LoadTime
    /\ activeButtons = MarkupButtons
    /\ stats = MarkupStats
    /\ container = MarkupContainer
    /\ visibleCount = 0
    /\ phase = "called"
    /\ filterOutput = <<>>
    /\ history = <<>>
    /\ \E data \in {Null} \cup {Val(series) : series \in Series},
          width \in 1..MaxWidth, height \in 1..MaxHeight :
          sparklineArgs = [data |-> data, width |-> width, height |-> height]
    /\ sparklineHtml = <<>>
    /\ NoFetch

drawSparkline ==
    /\ phase = "called"
    /\ sparklineHtml' =
          generateSparklineSVG(sparklineArgs.data, sparklineArgs.width, sparklineArgs.height)
    /\ phase' = "drawn"
    /\ UNCHANGED <<fetchVars,
                   sparklineArgs, rawRepos, repos, currentFilter, currentSort,
                   searchTerm, activityFilter, hideArchived, checkboxChecked, now,
                   stats, visibleCount, container, activeButtons, filterOutput,
                   history>>

NextSparkline == drawSparkline

SpecSparkline == InitSparkline /\ [][NextSparkline]_vars

---------------------------------------------------------------------------
(* fetch_repos: the paging loop over the organisation's repositories *)

\* per_page of fetch_repos
per_page == 100

\* the most repositories the organisation holds
MaxCatalog == 201

\* the organisations fetch_repos is run on: repository i is listed i-th
Organisations == {[i \in 1..n |-> i] : n \in 0..MaxCatalog}

\* the body of the answer to GET /orgs/{org}/repos?per_page=n&page=p
apiPage(listing, n, p) ==
    LET first == (p - 1) * n + 1
        last == IF p * n < Len(listing) THEN p * n ELSE Len(listing)
    IN  SubSeq(listing, first, last)

InitFetch ==
    /\ catalog \in Organisations
    /\ page = 1
    /\ fetchedRepos = <<>>
    /\ requested = <<>>
    /\ outcome = <<>>
    /\ rawRepos = <<>>
    /\ repos = <<>>
    /\ InitialSelection
    /\ now = LoadTime
    /\ activeButtons = MarkupButtons
    /\ stats = MarkupStats
    /\ container = MarkupContainer
    /\ visibleCount = 0
    /\ phase = "fetching"
    /\ filterOutput = <<>>
    /\ history = <<>>
    /\ sparklineArgs = <<>>
    /\ sparklineHtml = <<>>

\* an iteration that leaves the loop after every full page as well
fetchPage_stopOnFull ==
    /\ outcome = <<>>
    /\ requested' = Append(requested, [page |-> page, ok |-> TRUE])
    /\ \E data \in {apiPage(catalog, per_page, page)} :
          IF data = <<>>
          THEN /\ outcome' = <<"return", fetchedRepos>>
               /\ UNCHANGED <<page, fetchedRepos>>
          ELSE /\ fetchedRepos' = fetchedRepos \o data
               /\ page' = page + 1
               /\ outcome' = IF Len(data) <= per_page
                             THEN <<"return", fetchedRepos \o data>> ELSE <<>>
    /\ UNCHANGED <<catalog, rawRepos, repos, currentFilter, currentSort, searchTerm,
                   activityFilter, hideArchived, checkboxChecked, now, stats,
                   visibleCount, container, activeButtons, phase, filterOutput,
                   history, sparklineArgs, sparklineHtml>>

\* one iteration of the loop whose request is answered with a body: an empty
\* page ends the loop, any other page is appended and a short one ends the
\* loop; the function returns repos when the loop has ended
fetchPage ==
    /\ outcome = <<>>
    /\ requested' = Append(requested, [page |-> page, ok |-> TRUE])
    /\ \E data \in {apiPage(catalog, per_page, page)} :
          IF data = <<>>
          THEN /\ outcome' = <<"return", fetchedRepos>>
               /\ UNCHANGED <<page, fetchedRepos>>
          ELSE /\ fetchedRepos' = fetchedRepos \o data
               /\ page' = page + 1
               /\ outcome' = IF Len(data) < per_page
                             THEN <<"return", fetchedRepos \o data>> ELSE <<>>
    /\ UNCHANGED <<catalog, rawRepos, repos, currentFilter, currentSort, searchTerm,
                   activityFilter, hideArchived, checkboxChecked, now, stats,
                   visibleCount, container, activeButtons, phase, filterOutput,
                   history, sparklineArgs, sparklineHtml>>

\* one iteration whose request raises urllib.error.HTTPError: sys.exit(1)
httpError ==
    /\ outcome = <<>>
    /\ requested' = Append(requested, [page |-> page, ok |-> FALSE])
    /\ outcome' = <<"exit", 1>>
    /\ UNCHANGED <<catalog, page, fetchedRepos, rawRepos, repos, currentFilter,
                   currentSort, searchTerm, activityFilter, hideArchived,
                   checkboxChecked, now, stats, visibleCount, container,
                   activeButtons, phase, filterOutput, history, sparklineArgs,
                   sparklineHtml>>

NextFetch == fetchPage \/ httpError

\* the loop is sequential and every request is answered, with a body or with
\* an HTTP error: an iteration that can be taken is taken
SpecFetch == InitFetch /\ [][NextFetch]_vars /\ WF_vars(NextFetch)

---------------------------------------------------------------------------
(* Properties *)

\* the records shown in #repoList, in display order
Visible == [i \in 1..Len(container.items) |-> container.items[i].repo]

Known(repo) == repo.updated_at # <<>>

\* the time from the last update of a record with a known updated_at to t
Elapsed(repo, t) == t - repo.updated_at[1]

\* how many records of the page satisfy P
CountRepos(P(_)) == Cardinality({i \in 1..Len(repos) : P(repos[i])})

\* C1: a record without updated_at is shown by none of the three recency
\* filters and is counted in none of the three recency counters.
C1_UnknownInNoBucket ==
    /\ activityFilter \in ActivityFilters =>
          \A i \in 1..Len(Visible) : Known(Visible[i])
    /\ LET known == updateStats(SelectSeq(repos, Known), LoadTime)
       IN  /\ stats.activeYearCount = known.activeYearCount
           /\ stats.inactive1yrCount = known.inactive1yrCount
           /\ stats.inactive3yrCount = known.inactive3yrCount

\* C2 as claimed: the '1yr-old' filter and inactive1yrCount hold exactly the
\* records with 1 <= yearsSinceUpdate < 3, never one with yearsSinceUpdate >= 3.
C2_InactiveBucketExclusive ==
    /\ activityFilter = "1yr-old" =>
          \A i \in 1..Len(Visible) :
              Known(Visible[i]) => Elapsed(Visible[i], now) < 3 * YearTicks
    /\ stats.inactive1yrCount =
          CountRepos(LAMBDA r : /\ Known(r)
                                /\ Elapsed(r, LoadTime) >= YearTicks
                                /\ Elapsed(r, LoadTime) < 3 * YearTicks)

\* the badge first match gives a record updated `elapsed` ticks ago
FirstMatchBadge(elapsed) ==
    CASE elapsed >= 3 * YearTicks -> "3yr+"
      [] elapsed < 3 * YearTicks /\ elapsed >= YearTicks -> "1yr+"
      [] elapsed < YearTicks -> "none"

\* what the list shows under the current selection with the recency filter off
VisibleWithoutActivityFilter ==
    LET r == renderRepos(repos, currentSort,
                         [CurrentSelection EXCEPT !.activityFilter = "all"])
    IN  [i \in 1..Len(r.container.items) |-> r.container.items[i].repo]

\* C2, amended: the activity badge is decided by first match (3yr+ before 1yr+
\* before none), so a shown record with a known updated_at carries the 1yr+
\* badge exactly when 1 <= yearsSinceUpdate < 3; the '1yr-old' filter and
\* inactive1yrCount are cumulative: they hold exactly the records with
\* yearsSinceUpdate >= 1, those with yearsSinceUpdate >= 3 included.
C2_BadgeFirstMatchFilterCumulative ==
    /\ \A i \in 1..Len(container.items) :
          Known(Visible[i]) =>
              container.items[i].activityBadge = FirstMatchBadge(Elapsed(Visible[i], now))
    /\ activityFilter = "1yr-old" =>
          Visible = SelectSeq(VisibleWithoutActivityFilter,
                              LAMBDA r : Known(r) /\ Elapsed(r, now) >= YearTicks)
    /\ stats.inactive1yrCount =
          CountRepos(LAMBDA r : Known(r) /\ Elapsed(r, LoadTime) >= YearTicks)
    /\ stats.inactive3yrCount =
          CountRepos(LAMBDA r : Known(r) /\ Elapsed(r, LoadTime) >= 3 * YearTicks)

\* the '1yr-old' filter shows a record at three years or more with its 3yr+
\* badge beside a record between one and three years with its 1yr+ badge
C2_Witness ==
    /\ activityFilter = "1yr-old"
    /\ \E i, j \in 1..Len(container.items) :
          /\ Elapsed(Visible[i], now) >= 3 * YearTicks
          /\ container.items[i].activityBadge = "3yr+"
          /\ Elapsed(Visible[j], now) < 3 * YearTicks
          /\ container.items[j].activityBadge = "1yr+"
    /\ stats.inactive1yrCount = 2
    /\ stats.inactive3yrCount >= 1

\* C3: a record exactly 1 x 365.25 days old is inactive and one exactly
\* 3 x 365.25 days old is long-inactive, in the badge and in the filters; a
\* record one tick younger than a boundary is in the younger bucket.
C3_BoundaryInclusive ==
    \A i \in 1..Len(container.items) :
        Known(Visible[i]) =>
            LET e == Elapsed(Visible[i], now)
                badge == container.items[i].activityBadge
            IN  /\ e = YearTicks => badge = "1yr+" /\ activityFilter # "within-year"
                /\ e = 3 * YearTicks => badge = "3yr+"
                /\ e = YearTicks - 1 =>
                      badge = "none" /\ activityFilter \notin {"1yr-old", "3yr-old"}
                /\ e = 3 * YearTicks - 1 => badge = "1yr+" /\ activityFilter # "3yr-old"

\* a record exactly on a boundary is shown beside one a tick younger than it
C3_Witness ==
    \E k \in {1, 3} : \E i, j \in 1..Len(container.items) :
        /\ Known(Visible[i]) /\ Elapsed(Visible[i], now) = k * YearTicks
        /\ container.items[i].activityBadge = (IF k = 1 THEN "1yr+" ELSE "3yr+")
        /\ Known(Visible[j]) /\ Elapsed(Visible[j], now) = k * YearTicks - 1
        /\ activityFilter = (IF k = 1 THEN "all" ELSE "1yr-old")

\* the arithmetic sum of a series, by partial sums
Total(series) ==
    LET partial[i \in 0..Len(series)] ==
            IF i = 0 THEN 0 ELSE partial[i - 1] + series[i]
    IN  partial[Len(series)]

\* the weekly commit series of the first raw record, <<>> when there is none
GivenSeries ==
    IF rawRepos[1].sparkline \in {Missing, Null} THEN <<>> ELSE rawRepos[1].sparkline[2]

\* C4: activity_score is the arithmetic sum of the weekly commit series, and 0
\* when the series is empty or absent.
C4_ScoreIsSum ==
    phase = "generated" =>
        /\ repos[1].activity_score = Total(GivenSeries)
        /\ GivenSeries = <<>> => repos[1].activity_score = 0

\* a series of the greatest length, with a week without commits and a week
\* with several, has been scored
C4_Witness ==
    /\ phase = "generated"
    /\ Len(GivenSeries) = MaxWeeks
    /\ \E i, j \in 1..Len(GivenSeries) : GivenSeries[i] = 0 /\ GivenSeries[j] > 1
    /\ repos[1].activity_score > GivenSeries[Len(GivenSeries)]
    /\ repos[1].activity_score > Len(GivenSeries)

RECURSIVE IsSubsequence(_, _)
\* a can be obtained from b by deleting elements
IsSubsequence(a, b) ==
    IF a = <<>> THEN TRUE
    ELSE IF b = <<>> THEN FALSE
    ELSE IF a[1] = b[1] THEN IsSubsequence(Tail(a), Tail(b))
    ELSE IsSubsequence(a, Tail(b))

\* the position of a record of the page in a sequence of records
PositionIn(seq, repo) == CHOOSE i \in 1..Len(seq) : seq[i] = repo

\* C5: what is shown is a subsequence of the fully sorted record set: any two
\* shown records are in the relative order sortRepos gives them.
C5_VisibleInSortedOrder ==
    \E sorted \in {sortRepos(repos, currentSort)} :
        /\ IsSubsequence(Visible, sorted)
        /\ \A i, j \in 1..Len(Visible) :
              i < j => PositionIn(sorted, Visible[i]) < PositionIn(sorted, Visible[j])

\* two records are shown under a search term, in the order of the sort key
\* and not in the order of the catalog
C5_Witness ==
    /\ Len(Visible) >= 2
    /\ searchTerm # <<>>
    /\ hideArchived = FALSE
    /\ Visible # repos
    /\ Visible = sortRepos(repos, currentSort)

\* the selection before click i, the tile clicked, and the selection after it
Before(i) == history[i][1]
Tile(i) == history[i][2]
After(i) == IF i < Len(history) THEN history[i + 1][1] ELSE activityFilter

\* C7 as claimed: clicking the same recency tile twice in a row always ends
\* with no bucket selected.
C7_TwiceEndsInNone ==
    \A i \in 1..(Len(history) - 1) : Tile(i) = Tile(i + 1) => After(i + 1) = "all"

\* C7, amended: clicking tile f when f is selected clears the selection and
\* clicking f otherwise selects f, so at most one bucket is ever selected; two
\* clicks in a row on f end with no bucket selected when f was not selected
\* before them, and with f selected when it was.
C7_ToggleStateMachine ==
    /\ activityFilter \in {"all"} \cup ActivityFilters
    /\ Cardinality(activeButtons.tiles) <= 1
    /\ \A i \in 1..Len(history) :
          After(i) = (IF Before(i) = Tile(i) THEN "all" ELSE Tile(i))
    /\ \A i \in 1..(Len(history) - 1) :
          Tile(i) = Tile(i + 1) =>
              After(i + 1) = (IF Before(i) = Tile(i) THEN Tile(i) ELSE "all")

\* the same tile was clicked three times in a row and is selected
C7_Witness ==
    /\ Len(history) = 3
    /\ Tile(1) = Tile(2) /\ Tile(2) = Tile(3)
    /\ Before(1) = "all" /\ Before(2) = Tile(1) /\ Before(3) = "all"
    /\ activityFilter = Tile(3)

\* the four predicates a record has to pass, as the selection state sets them
PassesArchived(repo) == hideArchived => ~repo.archived

PassesCategory(repo) ==
    CASE currentFilter = "all" -> TRUE
      [] currentFilter = "project" -> repo.is_project
      [] currentFilter = "chapter" -> repo.is_chapter

\* the tiles read 'Updated within 1 year', 'Older than 1 year', 'Older than 3
\* years'; a record without updated_at counts as updated just now
PassesRecency(repo) ==
    LET elapsed == IF Known(repo) THEN Elapsed(repo, now) ELSE 0
    IN  CASE activityFilter = "all" -> TRUE
          [] activityFilter = "within-year" -> elapsed < YearTicks
          [] activityFilter = "1yr-old" -> elapsed >= YearTicks
          [] activityFilter = "3yr-old" -> elapsed >= 3 * YearTicks

\* t occurs in s at some offset
OccursIn(t, s) ==
    \E offset \in 0..Len(s) :
        /\ offset + Len(t) <= Len(s)
        /\ \A k \in 1..Len(t) : s[offset + k] = t[k]

Folded(s) == [i \in 1..Len(s) |-> LowerChar(s[i])]

\* the search term, case folded, occurs in one of the five fields, case folded
Matches(repo, term) ==
    \/ OccursIn(Folded(term), Folded(repo.name))
    \/ OccursIn(Folded(term), Folded(repo.description))
    \/ OccursIn(Folded(term), Folded(repo.title))
    \/ OccursIn(Folded(term), Folded(repo.pitch))
    \/ \E tag \in {repo.tags[i] : i \in 1..Len(repo.tags)} :
          OccursIn(Folded(term), Folded(tag))

PassesSearch(repo) == searchTerm = <<>> \/ Matches(repo, searchTerm)

\* filterRepos with one of the four filters switched on and the others off
OnlyArchived(rs) ==
    filterRepos(rs, Selection(hideArchived, "all", "all", <<>>, now))
OnlyCategory(rs) ==
    filterRepos(rs, Selection(FALSE, currentFilter, "all", <<>>, now))
OnlyRecency(rs) ==
    filterRepos(rs, Selection(FALSE, "all", activityFilter, <<>>, now))
OnlySearch(rs) ==
    filterRepos(rs, Selection(FALSE, "all", "all", searchTerm, now))

\* filter number n of the four
Single(n, rs) ==
    CASE n = 1 -> OnlyArchived(rs)
      [] n = 2 -> OnlyCategory(rs)
      [] n = 3 -> OnlyRecency(rs)
      [] n = 4 -> OnlySearch(rs)

\* the orders in which the four filters can be applied
Orders == {p \in [1..4 -> 1..4] : \A i, j \in 1..4 : i # j => p[i] # p[j]}

\* C6: a record is visible if and only if it passes the archived predicate and
\* the category predicate and the recency predicate and the search predicate;
\* applying the four filters one at a time, in any order, gives the same result.
C6_FiltersComposeWithAnd ==
    phase = "filtered" =>
        /\ filterOutput =
              SelectSeq(repos, LAMBDA r : /\ PassesArchived(r) /\ PassesCategory(r)
                                          /\ PassesRecency(r) /\ PassesSearch(r))
        /\ \A p \in Orders :
              Single(p[4], Single(p[3], Single(p[2], Single(p[1], repos)))) = filterOutput

\* all four filters are switched on, and a record passes while another does not
C6_Witness ==
    /\ phase = "filtered"
    /\ hideArchived /\ currentFilter # "all" /\ activityFilter # "all" /\ searchTerm # <<>>
    /\ filterOutput # <<>>
    /\ Len(filterOutput) < Len(repos)

\* C8: filtering is idempotent: filterRepos applied to its own result, under
\* the same selection state, returns that result.
C8_FilterIdempotent ==
    /\ phase = "refiltered" => filterOutput = filterRepos(repos, CurrentSelection)
    /\ phase = "filtered" => filterRepos(filterOutput, CurrentSelection) = filterOutput

\* a filter that removed a record and kept two has been applied twice
C8_Witness ==
    /\ phase = "refiltered"
    /\ filterOutput # <<>>
    /\ Len(filterOutput) < Len(repos)
    /\ hideArchived \/ currentFilter # "all" \/ activityFilter # "all" \/ searchTerm # <<>>

\* what the list shows under the current selection with the search box empty
VisibleWithoutSearch ==
    LET r == renderRepos(repos, currentSort, [CurrentSelection EXCEPT !.searchTerm = <<>>])
    IN  [i \in 1..Len(r.container.items) |-> r.container.items[i].repo]

\* C9: every record shown under a search term is shown under the empty term
\* and the same sort key and filters, and the empty term removes no record.
C9_SearchIsSubset ==
    \E without \in {VisibleWithoutSearch} :
        /\ \A i \in 1..Len(Visible) : \E j \in 1..Len(without) : without[j] = Visible[i]
        /\ IsSubsequence(Visible, without)
        /\ \A i \in 1..Len(repos) :
              (PassesArchived(repos[i]) /\ PassesCategory(repos[i]) /\ PassesRecency(repos[i]))
                  => \E j \in 1..Len(without) : without[j] = repos[i]
        /\ searchTerm = <<>> => Visible = without

\* a search term removed a record from the list and kept another
C9_Witness ==
    /\ searchTerm # <<>>
    /\ Visible # <<>>
    /\ Len(Visible) < Len(VisibleWithoutSearch)

\* the upper-case form of a string
Raised(s) ==
    [i \in 1..Len(s) |->
        IF \E k \in 1..26 : LowerCase[k] = s[i]
        THEN UpperCase[CHOOSE k \in 1..26 : LowerCase[k] = s[i]]
        ELSE s[i]]

\* the fields of a record put in another case
Recased(repo, F(_)) ==
    [repo EXCEPT !.name = F(@), !.description = F(@), !.title = F(@), !.pitch = F(@),
                 !.tags = [i \in 1..Len(@) |-> F(@[i])]]

\* C10: under a non-empty term a record passes the search exactly when the
\* lower-cased term is a substring of its lower-cased name, description, title,
\* pitch or one of its tags; the case of the term and of the fields is ignored.
C10_SearchMatchesFiveFields ==
    (phase = "filtered" /\ searchTerm # <<>>) =>
        /\ filterOutput =
              SelectSeq(filterRepos(repos, [CurrentSelection EXCEPT !.searchTerm = <<>>]),
                        LAMBDA r : Matches(r, searchTerm))
        /\ \A F \in {"lower", "upper"} :
              LET Case(s) == IF F = "lower" THEN Folded(s) ELSE Raised(s)
              IN  /\ filterRepos(repos, [CurrentSelection EXCEPT !.searchTerm = Case(@)])
                        = filterOutput
                  /\ filterRepos([i \in 1..Len(repos) |-> Recased(repos[i], Case)],
                                 CurrentSelection)
                        = [i \in 1..Len(filterOutput) |-> Recased(filterOutput[i], Case)]

\* an upper-case term kept a record that matches in a tag alone and removed a
\* record that matches in no field
C10_Witness ==
    /\ phase = "filtered"
    /\ searchTerm # <<>> /\ searchTerm # Folded(searchTerm)
    /\ Len(filterOutput) < Len(filterRepos(repos, [CurrentSelection EXCEPT !.searchTerm = <<>>]))
    /\ \E i \in 1..Len(filterOutput) :
          LET r == filterOutput[i]
          IN  /\ ~OccursIn(Folded(searchTerm), Folded(r.name))
              /\ ~OccursIn(Folded(searchTerm), Folded(r.description))
              /\ ~OccursIn(Folded(searchTerm), Folded(r.title))
              /\ ~OccursIn(Folded(searchTerm), Folded(r.pitch))

\* the key and the result of the n-th application of sortRepos
SortKeyAt(n) == history[n][1]
SortResult(n) == history[n][2]

\* the timestamp a sort key orders by
TimestampOf(repo, sortBy) ==
    IF sortBy \in {"updated-asc", "updated-desc"} THEN repo.updated_at ELSE repo.created_at

\* in `sorted`, every record without the timestamp comes before every record with it
AbsentFirst(sorted, sortBy) ==
    \A i, j \in 1..Len(sorted) :
        (TimestampOf(sorted[i], sortBy) = <<>> /\ TimestampOf(sorted[j], sortBy) # <<>>)
            => i < j

AbsentLast(sorted, sortBy) ==
    \A i, j \in 1..Len(sorted) :
        (TimestampOf(sorted[i], sortBy) = <<>> /\ TimestampOf(sorted[j], sortBy) # <<>>)
            => i > j

\* C11: sorted by last-updated or created time ascending, every record with an
\* absent timestamp precedes every record with a known one; sorted descending,
\* every such record follows them; for every input order.
C11_AbsentTimestampEarliest ==
    (phase = "sorted" /\ Len(history) = 1) =>
        /\ SortKeyAt(1) \in {"updated-asc", "created-asc"}
              => AbsentFirst(SortResult(1), SortKeyAt(1))
        /\ SortKeyAt(1) \in {"updated-desc", "created-desc"}
              => AbsentLast(SortResult(1), SortKeyAt(1))

\* the sequence in reverse
Reversed(s) == [i \in 1..Len(s) |-> s[Len(s) + 1 - i]]

\* C12: for a record set without duplicate names, sorted by name ascending,
\* that result sorted by name descending is the exact reverse of it, and that
\* result sorted by name ascending again is the first ascending order.
C12_NameSortRoundTrip ==
    /\ (Len(history) >= 2 /\ SortKeyAt(1) = "name-asc" /\ SortKeyAt(2) = "name-desc")
          => SortResult(2) = Reversed(SortResult(1))
    /\ (Len(history) >= 3 /\ SortKeyAt(1) = "name-asc" /\ SortKeyAt(2) = "name-desc"
                          /\ SortKeyAt(3) = "name-asc")
          => SortResult(3) = SortResult(1)

\* a catalog that is not in name order has been sorted up, down and up again
C12_Witness ==
    /\ Len(history) = 3
    /\ SortKeyAt(1) = "name-asc" /\ SortKeyAt(2) = "name-desc" /\ SortKeyAt(3) = "name-asc"
    /\ Len(repos) >= 2
    /\ SortResult(1) # repos
    /\ SortResult(2) # SortResult(1)

\* the names of the records shown, in display order
VisibleNames == [i \in 1..Len(Visible) |-> Visible[i].name]

\* C13: for a (5 stars, not archived, updated 2 years ago) and b (10 stars,
\* archived, updated 6 months ago), sorted by stars descending: with archived
\* hidden the list is [a]; with archived shown it is [b, a]; with archived
\* shown and the search term "b" it is [b].
C13_EndToEndExample ==
    (currentSort = "stars-desc" /\ currentFilter = "all" /\ activityFilter = "all") =>
        /\ (hideArchived /\ searchTerm = <<>>) => VisibleNames = << <<"a">> >>
        /\ (~hideArchived /\ searchTerm = <<>>) => VisibleNames = << <<"b">>, <<"a">> >>
        /\ (~hideArchived /\ searchTerm = <<"b">>) => VisibleNames = << <<"b">> >>

\* the three views of the example have been shown one after the other: the
\* list is sorted by stars, archived records are shown, "b" is searched for
C13_Witness ==
    /\ rawRepos = ExampleCatalog
    /\ currentSort = "stars-desc" /\ currentFilter = "all" /\ activityFilter = "all"
    /\ ~hideArchived /\ searchTerm = <<"b">>
    /\ VisibleNames = << <<"b">> >>
    /\ visibleCount = 1

IsArchived(repo) == repo.archived
IsProject(repo) == repo.is_project
IsChapter(repo) == repo.is_chapter
IsArchivedProject(repo) == repo.is_project /\ repo.archived
IsArchivedChapter(repo) == repo.is_chapter /\ repo.archived

\* C14: after any sequence of category, recency, hide-archived, sort and search
\* changes the aggregate counters equal the counts over all records of the
\* page, with active = total - archived for repositories, projects and chapters.
C14_StatsOverAllRecords ==
    /\ stats.totalCount = Len(repos)
    /\ stats.archivedReposCount = CountRepos(IsArchived)
    /\ stats.activeReposCount = Len(repos) - CountRepos(IsArchived)
    /\ stats.projectCount = CountRepos(IsProject)
    /\ stats.archivedProjectsCount = CountRepos(IsArchivedProject)
    /\ stats.activeProjectsCount = CountRepos(IsProject) - CountRepos(IsArchivedProject)
    /\ stats.chapterCount = CountRepos(IsChapter)
    /\ stats.archivedChaptersCount = CountRepos(IsArchivedChapter)
    /\ stats.activeChaptersCount = CountRepos(IsChapter) - CountRepos(IsArchivedChapter)

\* every kind of selection has been changed, the list shows fewer records than
\* the page holds, and an archived record is counted
C14_Witness ==
    /\ currentFilter # "all" /\ activityFilter # "all" /\ searchTerm # <<>>
    /\ currentSort # "activity-desc" /\ ~hideArchived
    /\ Len(Visible) < Len(repos)
    /\ stats.archivedReposCount > 0
    /\ stats.activeReposCount > 0

\* v is None: a null that generate_html passed on
IsNone(v) == ToString(v) = ToString(Null)

\* C15: for a raw record in which any fields are absent or null, generate_html
\* completes without raising and yields name, description, title and pitch as
\* strings, the four counts as non-negative integers, archived as a boolean,
\* tags and sparkline as sequences, and language as a non-empty string.
C15_NormalizationTotal ==
    phase # "fetched" =>
        /\ phase = "generated"
        /\ \A i \in 1..Len(repos) :
              /\ ~IsNone(repos[i].name) /\ ~IsNone(repos[i].description)
              /\ ~IsNone(repos[i].title) /\ ~IsNone(repos[i].pitch)
              /\ ~IsNone(repos[i].stargazers_count) /\ ~IsNone(repos[i].forks_count)
              /\ ~IsNone(repos[i].open_issues_count) /\ ~IsNone(repos[i].open_prs_count)
              /\ ~IsNone(repos[i].archived)
              /\ ~IsNone(repos[i].tags) /\ ~IsNone(repos[i].sparkline)
              /\ ~IsNone(repos[i].language) /\ repos[i].language # <<>>

\* the series a sparkline was drawn for, <<>> for none
Drawn == IF sparklineArgs.data = Null THEN <<>> ELSE sparklineArgs.data[2]

\* C16: for every positive width and height, an empty or absent series gives
\* the 'no data' label and no geometry; a non-empty series of zeros gives
\* geometry, one point per entry, every point at y = height.
C16_EmptyVersusFlat ==
    phase = "drawn" =>
        /\ Drawn = <<>> =>
              /\ sparklineHtml.label = "No activity data"
              /\ sparklineHtml.points = <<>>
              /\ sparklineHtml.fillPath = <<>>
        /\ (Drawn # <<>> /\ \A k \in 1..Len(Drawn) : Drawn[k] = 0) =>
              /\ sparklineHtml.label = ""
              /\ Len(sparklineHtml.points) = Len(Drawn)
              /\ \A k \in 1..Len(Drawn) :
                    sparklineHtml.points[k][2] = 10 * sparklineArgs.height

\* a series of several zeros has been drawn
C16_Witness ==
    /\ phase = "drawn"
    /\ Len(Drawn) >= 2
    /\ \A k \in 1..Len(Drawn) : Drawn[k] = 0
    /\ sparklineArgs.height > 1
    /\ sparklineHtml.points # <<>>

\* the numbers a sparkline's coordinates are derived from
Divisor == IF Len(Drawn) > 1 THEN Len(Drawn) - 1 ELSE 1
Peak == mathMax(Drawn, 1)

\* tenths is the nearest tenth to num / den
NearestTenth(tenths, num, den) ==
    /\ 2 * (tenths * den - 10 * num) <= den
    /\ 2 * (10 * num - tenths * den) <= den

\* one point per entry, inside the box; x starts at 0 and ends at the width;
\* the fill boundary is (0, height), the points, (width, height)
BoundedAndClosed ==
    LET points == sparklineHtml.points
        width == 10 * sparklineArgs.width
        height == 10 * sparklineArgs.height
    IN  /\ Len(points) = Len(Drawn)
        /\ \A k \in 1..Len(points) :
              /\ 0 <= points[k][1] /\ points[k][1] <= width
              /\ 0 <= points[k][2] /\ points[k][2] <= height
        /\ points[1][1] = 0
        /\ Len(points) >= 2 => points[Len(points)][1] = width
        /\ sparklineHtml.fillPath = <<<<0, height>>>> \o points \o <<<<width, height>>>>

C18_RecordsNeverMutated ==
    /\ repos = repo_data(rawRepos)
    /\ \A i \in 1..Len(container.items) :
          \E j \in 1..Len(repos) : repos[j] = container.items[i].repo

\* the list shows the records in another order than the page holds them, and
\* shows five of the six tags of a record
C18_Witness ==
    /\ Len(Visible) = Len(repos)
    /\ Visible # repos
    /\ currentSort # "activity-desc"
    /\ \E i \in 1..Len(container.items) :
          /\ Len(container.items[i].tags) = TagCap
          /\ Len(container.items[i].repo.tags) > TagCap
    /\ \E j \in 1..Len(repos) : Len(repos[j].tags) > TagCap

\* how old a badge says a record is
BadgeRank(badge) ==
    CASE badge = "none" -> 0
      [] badge = "1yr+" -> 1
      [] badge = "3yr+" -> 2

\* the badges shown and the recency filter agree with the clock as last read
ComputedAtNow ==
    /\ \A i \in 1..Len(container.items) :
          Known(Visible[i]) =>
              container.items[i].activityBadge = FirstMatchBadge(Elapsed(Visible[i], now))
    /\ \A i \in 1..Len(Visible) : PassesRecency(Visible[i])

\* from one render to the next no record shown in both gets a younger badge
NoYoungerBucket ==
    \A i \in 1..Len(container.items) : \A j \in 1..Len(container.items') :
        container.items[i].repo = container.items'[j].repo =>
            BadgeRank(container.items'[j].activityBadge)
                >= BadgeRank(container.items[i].activityBadge)

\* C19: yearsSinceUpdate is not cached: every filter run and every render
\* computes it from updated_at and the clock as read then; as the clock
\* advances a record's bucket moves from active to inactive to long-inactive
\* and never back.
C19_RecomputedAndMonotone == [](ComputedAtNow) /\ [][NoYoungerBucket]_vars

\* the clock has advanced since the load, and the list shows with the 1yr+
\* badge a record that was less than a year old when the page was loaded
C19_Witness ==
    /\ now > LoadTime
    /\ \E i \in 1..Len(container.items) :
          /\ Known(Visible[i])
          /\ Elapsed(Visible[i], LoadTime) < YearTicks
          /\ container.items[i].activityBadge = "1yr+"

\* C20: for every record and every reference instant activity_score >= 0 and
\* yearsSinceUpdate >= 0, also for a record whose updated_at is later than the
\* instant at which the page computes it.
C20_DerivedFieldsNonNegative ==
    /\ \A i \in 1..Len(repos) : repos[i].activity_score >= 0
    /\ \A i \in 1..Len(container.items) : container.items[i].yearsSinceUpdate >= 0

\* the record passes the four filters of the current selection
PassesAll(repo) ==
    /\ PassesArchived(repo) /\ PassesCategory(repo)
    /\ PassesRecency(repo) /\ PassesSearch(repo)

\* C21: when the selection leaves no record of a non-empty record set visible,
\* the render does not fail: it shows the 'no results' notice with visible
\* count 0; the total count tells this state from the one of an empty record
\* set.
C21_EmptyResultIsAState ==
    /\ phase = "page"
    /\ (\A i \in 1..Len(repos) : ~PassesAll(repos[i])) <=> container.noResults
    /\ container.noResults => (container.items = <<>> /\ visibleCount = 0)
    /\ ~container.noResults => visibleCount > 0
    /\ (repos # <<>> /\ container.noResults) => (visibleCount = 0 /\ stats.totalCount > 0)
    /\ repos = <<>> => (container.noResults /\ stats.totalCount = 0)

\* a selection has emptied the list of a page that holds records
C21_Witness ==
    /\ Len(repos) = MaxRepos
    /\ container.noResults
    /\ visibleCount = 0
    /\ stats.totalCount = MaxRepos
    /\ searchTerm # <<>>

\* the selection variables a step changes
ChangedSelections ==
    {v \in {"currentFilter", "activityFilter", "hideArchived", "currentSort", "searchTerm"} :
        CASE v = "currentFilter" -> currentFilter' # currentFilter
          [] v = "activityFilter" -> activityFilter' # activityFilter
          [] v = "hideArchived" -> hideArchived' # hideArchived
          [] v = "currentSort" -> currentSort' # currentSort
          [] v = "searchTerm" -> searchTerm' # searchTerm}

\* the control a step was made with, as far as the highlighting shows it
OwnSelectionOnly ==
    /\ Cardinality(ChangedSelections) <= 1
    /\ activeButtons'.category # activeButtons.category
          => ChangedSelections \subseteq {"currentFilter"}
    /\ activeButtons'.tiles # activeButtons.tiles
          => ChangedSelections \subseteq {"activityFilter"}
    /\ activeButtons'.sort # activeButtons.sort
          => ChangedSelections \subseteq {"currentSort"}
    /\ checkboxChecked' # checkboxChecked
          => ChangedSelections \subseteq {"hideArchived"}

\* C22: each interaction changes only its own selection variable: a category
\* button only currentFilter, a recency tile only activityFilter, the checkbox
\* only hideArchived, a sort button only currentSort, typing only searchTerm.
C22_IndependentSelections == [][OwnSelectionOnly]_vars

\* every one of the five selections has been changed from its initial value
C22_Witness ==
    /\ rawRepos = ExampleCatalog
    /\ currentFilter # "all" /\ activityFilter # "all" /\ ~hideArchived
    /\ currentSort # "activity-desc" /\ searchTerm # <<>>
    /\ activeButtons.category # {"filterAll"} /\ activeButtons.tiles # {}

\* the number a numeric sort key orders by, an absent level counted as 0
NumberOf(repo, sortBy) ==
    CASE sortBy \in {"stars-desc", "stars-asc"} -> repo.stargazers_count
      [] sortBy \in {"forks-desc", "forks-asc"} -> repo.forks_count
      [] sortBy \in {"activity-desc", "activity-asc"} -> repo.activity_score
      [] sortBy \in {"prs-desc", "prs-asc"} -> repo.open_prs_count
      [] sortBy \in {"issues-desc", "issues-asc"} -> repo.open_issues_count
      [] sortBy \in {"level-desc", "level-asc"} ->
            IF repo.level = <<>> THEN 0 ELSE repo.level[1]

Ascending == {"updated-asc", "name-asc", "stars-asc", "forks-asc", "activity-asc",
              "prs-asc", "issues-asc", "level-asc", "created-asc"}

\* -1, 0 or 1 as the key of a is below, equal to or above the key of b; two
\* timestamps are compared when both are known, and count as equal otherwise
KeyOrder(a, b, sortBy) ==
    CASE sortBy \in {"name-asc", "name-desc"} -> localeCompare(a.name, b.name)
      [] sortBy \in {"updated-asc", "updated-desc", "created-asc", "created-desc"} ->
            LET ta == TimestampOf(a, sortBy)
                tb == TimestampOf(b, sortBy)
            IN  IF ta = <<>> \/ tb = <<>> THEN 0
                ELSE IF ta[1] < tb[1] THEN -1 ELSE IF ta[1] > tb[1] THEN 1 ELSE 0
      [] OTHER ->
            IF NumberOf(a, sortBy) < NumberOf(b, sortBy) THEN -1
            ELSE IF NumberOf(a, sortBy) > NumberOf(b, sortBy) THEN 1 ELSE 0

\* C23: for each sort key sortRepos returns a permutation of its input,
\* non-decreasing by the key for '-asc' and non-increasing for '-desc', an
\* absent open-PR count or level counted as 0; records with equal keys keep
\* their input order; an unrecognised key returns the input order.
C23_SortedPermutation ==
    (phase = "sorted" /\ Len(history) = 1) =>
        LET sortBy == SortKeyAt(1)
            sorted == SortResult(1)
        IN  /\ Len(sorted) = Len(repos)
            /\ \A i \in 1..Len(repos) : \E j \in 1..Len(sorted) : sorted[j] = repos[i]
            /\ sortBy \in UnknownSortKeys => sorted = repos
            /\ sortBy \in SortKeys =>
                  \A i, j \in 1..Len(sorted) :
                      i < j =>
                          /\ sortBy \in Ascending
                                => KeyOrder(sorted[i], sorted[j], sortBy) <= 0
                          /\ sortBy \notin Ascending
                                => KeyOrder(sorted[i], sorted[j], sortBy) >= 0
                          /\ KeyOrder(sorted[i], sorted[j], sortBy) = 0
                                => PositionIn(repos, sorted[i]) < PositionIn(repos, sorted[j])

\* C24: in the initial state and after every interaction the list shown is
\* filterRepos(sortRepos(all records, currentSort)) under the current
\* selection, and visibleCount is its length.
C24_ListNeverStale ==
    \E current \in {filterRepos(sortRepos(repos, currentSort), CurrentSelection)} :
        /\ Visible = current
        /\ Visible = SelectSeq(sortRepos(repos, currentSort), PassesAll)
        /\ visibleCount = Len(current)
        /\ container.noResults <=> current = <<>>

\* every kind of control has been used, the clock has advanced, and the list
\* shows one of the records of a full catalog
C24_Witness ==
    /\ currentFilter # "all" /\ activityFilter # "all" /\ ~hideArchived
    /\ currentSort # "activity-desc" /\ searchTerm # <<>>
    /\ now > LoadTime
    /\ visibleCount = 1
    /\ Len(repos) = MaxRepos

\* C25: in every reachable state, the initial one included, exactly one sort
\* button is marked active and it is the button of currentSort, exactly one
\* category button is marked active and it is the button of currentFilter, and
\* a recency tile is marked active exactly when activityFilter holds its bucket.
C25_HighlightMatchesSelection ==
    /\ activeButtons.sort = {currentSort}
    /\ activeButtons.category = {categoryButton(currentFilter)}
    /\ activeButtons.tiles = activityTile(activityFilter)

\* a record shown at the clock reading `now` was last updated a year ago or more
Stale(repo) == Known(repo) /\ Elapsed(repo, now) >= YearTicks

\* C26: a visible record gets a bump link exactly when its yearsSinceUpdate is
\* at least 1 and it is not archived; an archived record with yearsSinceUpdate
\* at least 1 gets the disabled marker, without a link; a record with
\* yearsSinceUpdate below 1, one with an unknown updated_at included, gets no
\* bump control.
C26_BumpOnlyStaleUnarchived ==
    \A i \in 1..Len(container.items) :
        LET item == container.items[i]
        IN  /\ item.bumpButton = "link" <=> (Stale(item.repo) /\ ~item.repo.archived)
            /\ (Stale(item.repo) /\ item.repo.archived) => item.bumpButton = "disabled"
            /\ ~Stale(item.repo) => item.bumpButton = "none"
            /\ ~Known(item.repo) => item.bumpButton = "none"

\* the list shows a stale record with the link next to an archived stale one
\* with the disabled marker, and the clock has advanced since the load
C26_Witness ==
    /\ now > LoadTime
    /\ \E i, j \in 1..Len(container.items) :
          /\ container.items[i].bumpButton = "link"
          /\ container.items[j].bumpButton = "disabled"
          /\ container.items[j].repo.archived

\* the size of the page the API serves under number p
PageSize(p) == Len(apiPage(catalog, per_page, p))

\* fetch_repos has returned
Returned == outcome # <<>> /\ outcome[1] = "return"

\* fetch_repos has ended the run through sys.exit
Exited == outcome # <<>> /\ outcome[1] = "exit"

\* the requests made so far, the answers to them and the way the run ended
PagingAsStated ==
    /\ \A k \in 1..Len(requested) : requested[k].page = k
    /\ \A k \in 1..(Len(requested) - 1) :
          requested[k].ok /\ PageSize(k) = per_page
    /\ outcome = <<>> =>
          \A k \in 1..Len(requested) : requested[k].ok /\ PageSize(k) = per_page
    /\ Returned =>
          /\ requested # <<>>
          /\ requested[Len(requested)].ok
          /\ PageSize(Len(requested)) < per_page
          /\ outcome[2] = catalog
          /\ \A i, j \in 1..Len(outcome[2]) : i # j => outcome[2][i] # outcome[2][j]
    /\ Exited <=> (requested # <<>> /\ ~requested[Len(requested)].ok)
    /\ Exited => outcome[2] = 1

\* C27: over a finite catalog served in pages of 100 the paging loop ends; it
\* asks for the pages 1, 2, ... in order, stops after the first page that is
\* empty or shorter than 100 and returns every repository once, in page order;
\* an HTTP error on any page ends the run with exit status 1 and nothing is
\* returned.
C27_FetchesAll == []PagingAsStated /\ <>(Returned \/ Exited)

\* a catalog of exactly two full pages has been returned after a third, empty
\* page was asked for
C27_Witness ==
    /\ Returned
    /\ Len(catalog) = 2 * per_page
    /\ Len(requested) = 3
    /\ PageSize(3) = 0
    /\ outcome[2] = catalog

====
